---------------------------- MODULE Spec2Model ----------------------------
(***************************************************************************)
(* Model of the web-page scraper / PDF generator (src/Script.py, the       *)
(* Selenium pipeline, and src/playwright_scraper.py, the Playwright        *)
(* pipeline).                                                              *)
(*                                                                         *)
(* Python strings are sequences of Unicode code points (naturals); a       *)
(* Python value is a record [type, chars]; the outcome of a call is a      *)
(* record [raised, value] whose field raised names the exception that      *)
(* left the call ("none" when it returned).                                *)
(***************************************************************************)
EXTENDS Integers, Sequences, FiniteSets

VARIABLES
    pc,            \* position of the scenario being run
    text,          \* clean_text: the argument
    cleaned,       \* clean_text: outcome of clean_text(text)
    recleaned,     \* clean_text: outcome of clean_text(clean_text(text))
    url,           \* self.url, the page URL
    href,          \* normalize_url: the destination
    normalized,    \* normalize_url: outcome of normalize_url(href)
    variant,       \* "selenium" (Script.py) or "playwright" (playwright_scraper.py)
    soup,          \* self.soup: the parsed node tree, nodes in document order
    content_data,  \* self.content_data
    tab_data,      \* self.tab_data
    raised,        \* the exception that ended the run, "none" while it runs
    page,          \* the live page of the browser session
    fault,         \* the browser command that fails in this run, if any
    tabs,          \* extract_tab_content: the local list `tabs` of element handles
    range_len,     \* extract_tab_content: the length the loop's range was built from
    caught,        \* extract_tab_content: the exception its handler caught, or "none"
    pdf,           \* self.pdf: the layout commands issued so far
    acted,         \* extract_tab_content: the handles it read a label from, each with
                   \* the number of activations the page had seen by then
    driver,        \* self.driver of the Selenium pipeline: "open" or "quit"; "none" without one
    i,             \* extract_tab_content: the loop index, from 0
    tab_name,      \* extract_tab_content: the local tab_name
    active_panel,  \* extract_tab_content: the panel element found (active_panel /
                   \* panel), by the index of its control; 0: None
    late           \* extract_tab_content: a panel lookup ran while an activation
                   \* was still pending in the page

textVars == <<text, cleaned, recleaned>>

urlVars == <<href, normalized>>

pipeVars == <<variant, soup, content_data, tab_data, raised, page, fault, tabs, range_len,
              caught, pdf, driver, acted, i, tab_name, active_panel, late>>

vars == <<pc, url, textVars, urlVars, pipeVars>>

---------------------------------------------------------------------------
(* Bounds of the model *)

\* longest clean_text argument, in characters
MaxText == 3

---------------------------------------------------------------------------
(* Python values and call outcomes *)

None == [type |-> "NoneType", chars |-> <<>>]

Str(s) == [type |-> "str", chars |-> s]

\* bool(v) for None and str
Truthy(v) == v.type = "str" /\ Len(v.chars) > 0

Returned(v) == [raised |-> "none", value |-> v]

Raised(exc) == [raised |-> exc, value |-> None]

\* the value of a variable no scenario has assigned yet
NotRun == [raised |-> "notrun", value |-> None]

\* all sequences over S of length at most n
RECURSIVE SeqsUpTo(_, _)
SeqsUpTo(S, n) ==
    IF n = 0 THEN {<<>>}
    ELSE LET shorter == SeqsUpTo(S, n - 1)
         IN  shorter \cup {Append(s, c) : s \in {t \in shorter : Len(t) = n - 1}, c \in S}

RECURSIVE Concat(_)
Concat(ss) == IF ss = <<>> THEN <<>> ELSE Head(ss) \o Concat(Tail(ss))

---------------------------------------------------------------------------
(* clean_text: src/Script.py 141-169, src/playwright_scraper.py 103-117 *)

\* the highest code point 'latin-1' encodes
Latin1Max == 255

\* the replacements dict, in insertion order: <<unicode_char, ascii_char>>
replacements ==
    << <<8594, <<45, 62>> >>,        \* right arrow            ->
       <<8592, <<60, 45>> >>,        \* left arrow             <-
       <<8211, <<45>> >>,            \* en dash                -
       <<8212, <<45, 45>> >>,        \* em dash                --
       <<8216, <<39>> >>,            \* left single quote      '
       <<8217, <<39>> >>,            \* right single quote     '
       <<8220, <<34>> >>,            \* left double quote      "
       <<8221, <<34>> >>,            \* right double quote     "
       <<8226, <<42>> >>,            \* bullet                 *
       <<8230, <<46, 46, 46>> >> >>  \* horizontal ellipsis    ...

\* str.replace(old, new) for a one-character old
RECURSIVE StrReplace(_, _, _)
StrReplace(s, old, new) ==
    IF s = <<>> THEN <<>>
    ELSE (IF Head(s) = old THEN new ELSE <<Head(s)>>) \o StrReplace(Tail(s), old, new)

\* the loop `for unicode_char, ascii_char in replacements.items()`, from entry k on
RECURSIVE ApplyReplacements(_, _)
ApplyReplacements(s, k) ==
    IF k > Len(replacements) THEN s
    ELSE ApplyReplacements(StrReplace(s, replacements[k][1], replacements[k][2]), k + 1)

\* text.encode('latin-1') succeeds
EncodesLatin1(s) == \A k \in 1..Len(s) : s[k] <= Latin1Max

\* text.encode('latin-1', errors='ignore').decode('latin-1')
EncodeIgnore(s) == SelectSeq(s, LAMBDA c : c <= Latin1Max)

\* clean_text without its `if not text` guard: None reaches text.replace
clean_text_unguarded(t) ==
    IF t.type # "str" THEN Raised("AttributeError")
    ELSE LET replaced == ApplyReplacements(t.chars, 1)
         IN  Returned(Str(IF EncodesLatin1(replaced) THEN replaced ELSE EncodeIgnore(replaced)))

\* clean_text that skips the em dash entry of the table
clean_text_no_emdash(t) ==
    IF ~Truthy(t) THEN Returned(Str(<<>>))
    ELSE LET replaced == ApplyReplacements(StrReplace(t.chars, 8212, <<>>), 1)
         IN  Returned(Str(IF EncodesLatin1(replaced) THEN replaced ELSE EncodeIgnore(replaced)))

clean_text(t) ==
    IF ~Truthy(t) THEN Returned(Str(<<>>))
    ELSE LET replaced == ApplyReplacements(t.chars, 1)
         IN  Returned(Str(IF EncodesLatin1(replaced) THEN replaced ELSE EncodeIgnore(replaced)))

---------------------------------------------------------------------------
(* str helpers *)

StartsWith(s, prefix) ==
    Len(s) >= Len(prefix) /\ SubSeq(s, 1, Len(prefix)) = prefix

\* the characters str.strip() removes: those for which str.isspace() holds
Whitespace ==
    {9, 10, 11, 12, 13, 28, 29, 30, 31, 32, 133, 160, 5760}
    \cup (8192..8202) \cup {8232, 8233, 8239, 8287, 12288}

RECURSIVE LStrip(_, _)
LStrip(s, chars) ==
    IF s # <<>> /\ Head(s) \in chars THEN LStrip(Tail(s), chars) ELSE s

RECURSIVE RStrip(_, _)
RStrip(s, chars) ==
    IF s # <<>> /\ s[Len(s)] \in chars THEN RStrip(SubSeq(s, 1, Len(s) - 1), chars) ELSE s

\* str.strip()
strip(s) == RStrip(LStrip(s, Whitespace), Whitespace)

\* the least index k >= from with s[k] in chars, or 0 when there is none
RECURSIVE FindAny(_, _, _)
FindAny(s, chars, from) ==
    IF from > Len(s) THEN 0
    ELSE IF s[from] \in chars THEN from
    ELSE FindAny(s, chars, from + 1)

\* str.split(sep) for a one-character sep: the pieces, in order
RECURSIVE Split(_, _)
Split(s, sep) ==
    LET k == FindAny(s, {sep}, 1)
    IN  IF k = 0 THEN <<s>>
        ELSE <<SubSeq(s, 1, k - 1)>> \o Split(SubSeq(s, k + 1, Len(s)), sep)

\* sep.join(parts)
RECURSIVE Join(_, _)
Join(parts, sep) ==
    IF parts = <<>> THEN <<>>
    ELSE IF Len(parts) = 1 THEN parts[1]
    ELSE parts[1] \o <<sep>> \o Join(Tail(parts), sep)

\* str.lower() on ASCII letters
Lower(s) == [k \in 1..Len(s) |-> IF s[k] \in 65..90 THEN s[k] + 32 ELSE s[k]]

---------------------------------------------------------------------------
(* urllib.parse.urljoin, as normalize_url calls it (src/Script.py 139),    *)
(* with the urlparse, urlsplit, urlunparse and ipaddress code it runs      *)
(* (CPython 3.11; the line numbers are those of urllib/parse.py and        *)
(* ipaddress.py).                                                          *)

\* urllib.parse.uses_relative: '', 'ftp', 'http', 'gopher', 'nntp', 'imap',
\* 'wais', 'file', 'https', 'shttp', 'mms', 'prospero', 'rtsp', 'rtsps',
\* 'rtspu', 'sftp', 'svn', 'svn+ssh', 'ws', 'wss'
uses_relative ==
    { <<>>, <<102, 116, 112>>, <<104, 116, 116, 112>>,
      <<103, 111, 112, 104, 101, 114>>, <<110, 110, 116, 112>>,
      <<105, 109, 97, 112>>, <<119, 97, 105, 115>>, <<102, 105, 108, 101>>,
      <<104, 116, 116, 112, 115>>, <<115, 104, 116, 116, 112>>,
      <<109, 109, 115>>, <<112, 114, 111, 115, 112, 101, 114, 111>>,
      <<114, 116, 115, 112>>, <<114, 116, 115, 112, 115>>,
      <<114, 116, 115, 112, 117>>, <<115, 102, 116, 112>>, <<115, 118, 110>>,
      <<115, 118, 110, 43, 115, 115, 104>>, <<119, 115>>, <<119, 115, 115>> }

\* urllib.parse.uses_netloc: '', 'ftp', 'http', 'gopher', 'nntp', 'telnet',
\* 'imap', 'wais', 'file', 'mms', 'https', 'shttp', 'snews', 'prospero',
\* 'rtsp', 'rtsps', 'rtspu', 'rsync', 'svn', 'svn+ssh', 'sftp', 'nfs', 'git',
\* 'git+ssh', 'ws', 'wss'
uses_netloc ==
    { <<>>, <<102, 116, 112>>, <<104, 116, 116, 112>>,
      <<103, 111, 112, 104, 101, 114>>, <<110, 110, 116, 112>>,
      <<116, 101, 108, 110, 101, 116>>, <<105, 109, 97, 112>>,
      <<119, 97, 105, 115>>, <<102, 105, 108, 101>>, <<109, 109, 115>>,
      <<104, 116, 116, 112, 115>>, <<115, 104, 116, 116, 112>>,
      <<115, 110, 101, 119, 115>>, <<112, 114, 111, 115, 112, 101, 114, 111>>,
      <<114, 116, 115, 112>>, <<114, 116, 115, 112, 115>>,
      <<114, 116, 115, 112, 117>>, <<114, 115, 121, 110, 99>>, <<115, 118, 110>>,
      <<115, 118, 110, 43, 115, 115, 104>>, <<115, 102, 116, 112>>,
      <<110, 102, 115>>, <<103, 105, 116>>, <<103, 105, 116, 43, 115, 115, 104>>,
      <<119, 115>>, <<119, 115, 115>> }

\* urllib.parse.uses_params: '', 'ftp', 'hdl', 'prospero', 'http', 'imap',
\* 'https', 'shttp', 'rtsp', 'rtsps', 'rtspu', 'sip', 'sips', 'mms', 'sftp',
\* 'tel'
uses_params ==
    { <<>>, <<102, 116, 112>>, <<104, 100, 108>>,
      <<112, 114, 111, 115, 112, 101, 114, 111>>, <<104, 116, 116, 112>>,
      <<105, 109, 97, 112>>, <<104, 116, 116, 112, 115>>,
      <<115, 104, 116, 116, 112>>, <<114, 116, 115, 112>>,
      <<114, 116, 115, 112, 115>>, <<114, 116, 115, 112, 117>>,
      <<115, 105, 112>>, <<115, 105, 112, 115>>, <<109, 109, 115>>,
      <<115, 102, 116, 112>>, <<116, 101, 108>> }

AsciiLetters == (65..90) \cup (97..122)

\* urllib.parse.scheme_chars: letters, digits, "+-."
scheme_chars == AsciiLetters \cup (48..57) \cup {43, 45, 46}

\* urlsplit's result; err is set when it raises ValueError
SplitResult(scheme, netloc, path, query, fragment, err) ==
    [scheme |-> scheme, netloc |-> netloc, path |-> path, query |-> query,
     fragment |-> fragment, err |-> err]

\* urlparse's result; err is set when urlsplit raises ValueError
ParseResult(scheme, netloc, path, params, query, fragment, err) ==
    [scheme |-> scheme, netloc |-> netloc, path |-> path, params |-> params,
     query |-> query, fragment |-> fragment, err |-> err]

\* c in s
Has(s, c) == \E k \in 1..Len(s) : s[k] = c

\* s.rfind(c), counted from 1 (0: none)
RECURSIVE RFind(_, _)
RFind(s, c) ==
    IF s = <<>> THEN 0
    ELSE IF s[Len(s)] = c THEN Len(s)
    ELSE RFind(SubSeq(s, 1, Len(s) - 1), c)

\* urlsplit 477, 480-481: leading C0 controls and spaces stripped, tab, CR
\* and LF removed
CleanUrl(u) == SelectSeq(LStrip(u, 0..32), LAMBDA c : c \notin {9, 10, 13})

\* urlsplit 478, 482: the default scheme stripped on both sides, tab, CR and
\* LF removed
CleanScheme(s) ==
    SelectSeq(RStrip(LStrip(s, 0..32), 0..32), LAMBDA c : c \notin {9, 10, 13})

\* urlsplit 486-492: <<scheme, rest>>, colon being url.find(':') + 1
SchemeAt(u, colon, defaultScheme) ==
    IF /\ colon > 1
       /\ u[1] \in AsciiLetters
       /\ \A k \in 1..(colon - 1) : u[k] \in scheme_chars
    THEN <<Lower(SubSeq(u, 1, colon - 1)), SubSeq(u, colon + 1, Len(u))>>
    ELSE <<defaultScheme, u>>

\* _splitnetloc(url, 2): <<netloc, rest>>, delim being the first of "/?#"
\* from the third character on (0: none)
NetlocAt(u, delim) ==
    IF delim = 0 THEN <<SubSeq(u, 3, Len(u)), <<>>>>
    ELSE <<SubSeq(u, 3, delim - 1), SubSeq(u, delim, Len(u))>>

\* urlsplit 493-494: <<netloc, rest>>
SplitNetloc(u) ==
    IF StartsWith(u, <<47, 47>>) THEN NetlocAt(u, FindAny(u, {47, 63, 35}, 3))
    ELSE <<<<>>, u>>

\* urlsplit 495-497: one of "[" and "]" without the other
BadNetloc(netloc) == Has(netloc, 91) # Has(netloc, 93)

\* string.hexdigits
HexDigits == (48..57) \cup (65..70) \cup (97..102)

\* int(s, 10) of ASCII digits
RECURSIVE DecimalValue(_)
DecimalValue(s) ==
    IF s = <<>> THEN 0
    ELSE 10 * DecimalValue(SubSeq(s, 1, Len(s) - 1)) + (s[Len(s)] - 48)

\* '%x' % n
RECURSIVE Hex(_)
Hex(n) ==
    LET digit == IF n % 16 < 10 THEN 48 + (n % 16) ELSE 87 + (n % 16)
    IN  IF n < 16 THEN <<digit>> ELSE Hex(n \div 16) \o <<digit>>

\* ipaddress _parse_octet: the octet, or -1 when it raises ValueError
parse_octet(octet_str) ==
    IF /\ octet_str # <<>>
       /\ \A k \in 1..Len(octet_str) : octet_str[k] \in 48..57
       /\ Len(octet_str) <= 3
       /\ (octet_str = <<48>> \/ octet_str[1] # 48)
       /\ DecimalValue(octet_str) <= 255
    THEN DecimalValue(octet_str)
    ELSE -1

\* int.from_bytes(octets, 'big')
RECURSIVE FromBytes(_)
FromBytes(octets) ==
    IF octets = <<>> THEN 0
    ELSE 256 * FromBytes(SubSeq(octets, 1, Len(octets) - 1)) + octets[Len(octets)]

\* ipaddress.IPv4Address(s): the four bytes of its _ip, big end first, or
\* <<>> when it raises AddressValueError
IPv4Address(s) ==
    LET octets == Split(s, 46)
    IN  IF \/ Has(s, 47)
           \/ s = <<>>
           \/ Len(octets) # 4
           \/ \E k \in 1..Len(octets) : parse_octet(octets[k]) < 0
        THEN <<>>
        ELSE [k \in 1..4 |-> parse_octet(octets[k])]

\* ipaddress _parse_hextet returns
parse_hextet(hextet_str) ==
    /\ \A k \in 1..Len(hextet_str) : hextet_str[k] \in HexDigits
    /\ Len(hextet_str) <= 4
    /\ hextet_str # <<>>

\* _BaseV6._ip_int_from_string 1643-1649: a dotted last part is replaced by
\* its two hextets, '%x' of (ipv4_int >> 16) & 0xFFFF and of
\* ipv4_int & 0xFFFF; <<>> when IPv4Address raises
WithIPv4Parts(parts) ==
    LET last == parts[Len(parts)]
    IN  IF ~Has(last, 46) THEN parts
        ELSE IF IPv4Address(last) = <<>> THEN <<>>
        ELSE SubSeq(parts, 1, Len(parts) - 1)
                 \o <<Hex(FromBytes(SubSeq(IPv4Address(last), 1, 2))),
                      Hex(FromBytes(SubSeq(IPv4Address(last), 3, 4)))>>

\* _BaseV6._ip_int_from_string 1672-1689, 1707-1719: the parts about the
\* '::' at skip_index (counted from 0) are accepted
PartsAboutSkip(parts, skip_index) ==
    LET n == Len(parts)
        parts_hi == IF parts[1] = <<>> THEN skip_index - 1 ELSE skip_index
        parts_lo == IF parts[n] = <<>> THEN n - skip_index - 2 ELSE n - skip_index - 1
    IN  /\ parts[1] = <<>> => parts_hi = 0
        /\ parts[n] = <<>> => parts_lo = 0
        /\ 8 - (parts_hi + parts_lo) >= 1
        /\ \A k \in 1..parts_hi : parse_hextet(parts[k])
        /\ \A k \in (n - parts_lo + 1)..n : parse_hextet(parts[k])

\* _BaseV6._ip_int_from_string 1654-1719: the parts are accepted
PartsAccepted(parts) ==
    LET n == Len(parts)
        skips == {k \in 2..(n - 1) : parts[k] = <<>>}
    IN  /\ n <= 9
        /\ Cardinality(skips) <= 1
        /\ IF skips # {}
           THEN PartsAboutSkip(parts, (CHOOSE k \in skips : TRUE) - 1)
           ELSE /\ n = 8
                /\ parts[1] # <<>>
                /\ parts[n] # <<>>
                /\ \A k \in 1..n : parse_hextet(parts[k])

\* _BaseV6._split_scope_id: <<addr, ok>>, ok false when it raises
split_scope_id(ip_str) ==
    LET at == FindAny(ip_str, {37}, 1)
        scope_id == SubSeq(ip_str, at + 1, Len(ip_str))
    IN  IF at = 0 THEN <<ip_str, TRUE>>
        ELSE <<SubSeq(ip_str, 1, at - 1), scope_id # <<>> /\ ~Has(scope_id, 37)>>

\* _BaseV6._ip_int_from_string returns for addr
IPv6Parts(addr) ==
    /\ addr # <<>>
    /\ Len(Split(addr, 58)) >= 3
    /\ WithIPv4Parts(Split(addr, 58)) # <<>>
    /\ PartsAccepted(WithIPv4Parts(Split(addr, 58)))

\* ipaddress.IPv6Address(s) is constructed
IPv6Address(s) ==
    /\ ~Has(s, 47)
    /\ split_scope_id(s)[2]
    /\ IPv6Parts(split_scope_id(s)[1])

\* re.match(r"\Av[a-fA-F0-9]+\..+\Z", hostname), hostname starting with 'v'
IPvFuture(hostname) ==
    \E k \in 2..(Len(hostname) - 2) :
        /\ \A j \in 2..k : hostname[j] \in HexDigits
        /\ hostname[k + 1] = 46
        /\ \A j \in (k + 2)..Len(hostname) : hostname[j] # 10

\* _check_bracketed_host raises ValueError
check_bracketed_host(hostname) ==
    IF StartsWith(hostname, <<118>>) THEN ~IPvFuture(hostname)
    ELSE IPv4Address(hostname) # <<>> \/ ~IPv6Address(hostname)

\* netloc.partition('[')[2].partition(']')[0]
bracketed_host(netloc) ==
    LET after == SubSeq(netloc, FindAny(netloc, {91}, 1) + 1, Len(netloc))
        close == FindAny(after, {93}, 1)
    IN  IF close = 0 THEN after ELSE SubSeq(after, 1, close - 1)

\* the characters whose NFKC form holds one of "/?#@:" (unicodedata 14.0):
\* U+2047-2049, U+2100, U+2101, U+2105, U+2106, U+2A74, U+FE13, U+FE16,
\* U+FE55, U+FE56, U+FE5F, U+FE6B, U+FF03, U+FF0F, U+FF1A, U+FF1F, U+FF20
NfkcDelimiters ==
    {8263, 8264, 8265, 8448, 8449, 8453, 8454, 10868, 65043, 65046, 65109,
     65110, 65119, 65131, 65283, 65295, 65306, 65311, 65312}

\* _checknetloc raises ValueError: the netloc, its own "@:#?" set aside,
\* gains one of "/?#@:" under NFKC normalisation
checknetloc(netloc) == \E k \in 1..Len(netloc) : netloc[k] \in NfkcDelimiters

\* url.split(sep, 1) when sep is in url: <<before, after>>, else <<url, ''>>
SplitOnce(u, at) ==
    IF at = 0 THEN <<u, <<>>>> ELSE <<SubSeq(u, 1, at - 1), SubSeq(u, at + 1, Len(u))>>

\* urlsplit 503-506, from <<path?query, fragment>>
SplitQuery(scheme, netloc, pf, err) ==
    SplitResult(scheme, netloc,
                SplitOnce(pf[1], FindAny(pf[1], {63}, 1))[1],
                SplitOnce(pf[1], FindAny(pf[1], {63}, 1))[2],
                pf[2], err \/ checknetloc(netloc))

\* urlsplit 495-506, from <<netloc, rest>>
SplitRest(scheme, nr) ==
    SplitQuery(scheme, nr[1], SplitOnce(nr[2], FindAny(nr[2], {35}, 1)),
               \/ BadNetloc(nr[1])
               \/ /\ Has(nr[1], 91)
                  /\ Has(nr[1], 93)
                  /\ check_bracketed_host(bracketed_host(nr[1])))

\* urlsplit 493-506, from <<scheme, rest>>
SplitAfterScheme(sr) == SplitRest(sr[1], SplitNetloc(sr[2]))

\* urlsplit 486-506, from the cleaned url
SplitClean(u, defaultScheme) ==
    SplitAfterScheme(SchemeAt(u, FindAny(u, {58}, 1), defaultScheme))

\* urlsplit(url, scheme)
urlsplit(u, defaultScheme) == SplitClean(CleanUrl(u), CleanScheme(defaultScheme))

\* _splitparams(url), url holding a ';': <<path, params>>
splitparams(u) ==
    LET at == IF Has(u, 47) THEN FindAny(u, {59}, RFind(u, 47)) ELSE FindAny(u, {59}, 1)
    IN  IF at = 0 THEN <<u, <<>>>>
        ELSE <<SubSeq(u, 1, at - 1), SubSeq(u, at + 1, Len(u))>>

\* urlparse 396-401, from urlsplit's result
ParseSplit(s) ==
    IF s.scheme \in uses_params /\ Has(s.path, 59)
    THEN ParseResult(s.scheme, s.netloc, splitparams(s.path)[1], splitparams(s.path)[2],
                     s.query, s.fragment, s.err)
    ELSE ParseResult(s.scheme, s.netloc, s.path, <<>>, s.query, s.fragment, s.err)

\* urlparse(url, scheme)
urlparse(u, defaultScheme) == ParseSplit(urlsplit(u, defaultScheme))

\* urlunsplit((scheme, netloc, url, query, fragment))
urlunsplit(scheme, netloc, path, query, fragment) ==
    LET withNetloc ==
            IF netloc # <<>> \/ (scheme # <<>> /\ scheme \in uses_netloc
                                 /\ ~StartsWith(path, <<47, 47>>))
            THEN <<47, 47>> \o netloc
                     \o (IF path # <<>> /\ path[1] # 47 THEN <<47>> ELSE <<>>) \o path
            ELSE path
        withScheme == IF scheme # <<>> THEN scheme \o <<58>> \o withNetloc ELSE withNetloc
        withQuery == IF query # <<>> THEN withScheme \o <<63>> \o query ELSE withScheme
    IN  IF fragment # <<>> THEN withQuery \o <<35>> \o fragment ELSE withQuery

\* urlunparse((scheme, netloc, url, params, query, fragment))
urlunparse(scheme, netloc, path, params, query, fragment) ==
    urlunsplit(scheme, netloc,
               IF params # <<>> THEN path \o <<59>> \o params ELSE path,
               query, fragment)

\* the loop over segments: '..' pops, '.' is skipped, the rest is appended
RECURSIVE ResolveSegments(_, _)
ResolveSegments(segments, resolved) ==
    IF segments = <<>> THEN resolved
    ELSE LET seg == Head(segments)
         IN  IF seg = <<46, 46>>
             THEN ResolveSegments(Tail(segments),
                      IF resolved = <<>> THEN <<>> ELSE SubSeq(resolved, 1, Len(resolved) - 1))
             ELSE IF seg = <<46>> THEN ResolveSegments(Tail(segments), resolved)
             ELSE ResolveSegments(Tail(segments), Append(resolved, seg))

\* segments[1:-1] = filter(None, segments[1:-1])
DropEmptyInner(segments) ==
    IF Len(segments) <= 2 THEN segments
    ELSE <<segments[1]>>
             \o SelectSeq(SubSeq(segments, 2, Len(segments) - 1), LAMBDA seg : seg # <<>>)
             \o <<segments[Len(segments)]>>

\* lines 569-604 of urljoin: the path of u resolved against the base path
ResolvedPath(bpath, path) ==
    LET bsplit == Split(bpath, 47)
        base_parts == IF bsplit[Len(bsplit)] # <<>>
                      THEN SubSeq(bsplit, 1, Len(bsplit) - 1) ELSE bsplit
        segments == IF StartsWith(path, <<47>>) THEN Split(path, 47)
                    ELSE DropEmptyInner(base_parts \o Split(path, 47))
    IN  Join(ResolveSegments(segments, <<>>)
                 \o (IF segments[Len(segments)] \in {<<46>>, <<46, 46>>}
                     THEN << <<>> >> ELSE <<>>),
             47)

\* '/'.join(resolved_path) or '/'
OrSlash(joined) == IF joined = <<>> THEN <<47>> ELSE joined

\* urljoin 553-605, base and url being parsed (b, r)
JoinParsed(b, r, u) ==
    IF b.err \/ r.err THEN Raised("ValueError")
    ELSE IF r.scheme # b.scheme \/ r.scheme \notin uses_relative
    THEN Returned(Str(u))
    ELSE IF r.scheme \in uses_netloc /\ r.netloc # <<>>
    THEN Returned(Str(urlunparse(r.scheme, r.netloc, r.path, r.params, r.query,
                                 r.fragment)))
    ELSE IF r.path = <<>> /\ r.params = <<>>
    THEN Returned(Str(urlunparse(r.scheme,
                                 IF r.scheme \in uses_netloc THEN b.netloc ELSE r.netloc,
                                 b.path, b.params,
                                 IF r.query = <<>> THEN b.query ELSE r.query,
                                 r.fragment)))
    ELSE Returned(Str(urlunparse(r.scheme,
                                 IF r.scheme \in uses_netloc THEN b.netloc ELSE r.netloc,
                                 OrSlash(ResolvedPath(b.path, r.path)),
                                 r.params, r.query, r.fragment)))

\* the scheme urlparse(base) finds: the default of urlparse(url, bscheme)
BaseScheme(base) == urlparse(base, <<>>).scheme

\* urljoin(base, url)
urljoin(base, u) ==
    IF base = <<>> THEN Returned(Str(u))
    ELSE IF u = <<>> THEN Returned(Str(base))
    ELSE JoinParsed(urlparse(base, <<>>), urlparse(u, BaseScheme(base)), u)

---------------------------------------------------------------------------
(* is_valid_link, normalize_url: src/Script.py 128-139,                    *)
(* src/playwright_scraper.py 92-101                                        *)

\* 'javascript:', 'mailto:', 'tel:'
JavascriptScheme == <<106, 97, 118, 97, 115, 99, 114, 105, 112, 116, 58>>
MailtoScheme == <<109, 97, 105, 108, 116, 111, 58>>
TelScheme == <<116, 101, 108, 58>>

is_valid_link(h) ==
    /\ ~StartsWith(h, JavascriptScheme)
    /\ ~StartsWith(h, MailtoScheme)
    /\ ~StartsWith(h, TelScheme)
    /\ strip(h) # <<35>>

\* normalize_url that resolves a single leading slash only
normalize_url_root_only(pageUrl, u) ==
    IF StartsWith(u, <<47>>) /\ ~StartsWith(u, <<47, 47>>)
    THEN urljoin(pageUrl, u) ELSE Returned(Str(u))

normalize_url(pageUrl, u) ==
    IF StartsWith(u, <<47>>) THEN urljoin(pageUrl, u) ELSE Returned(Str(u))

---------------------------------------------------------------------------
(* The node tree BeautifulSoup hands to extract_content.                   *)
(* A tree is the sequence of its nodes in document order; a node names its *)
(* parent by index (0: the BeautifulSoup object itself).  A node is a tag  *)
(* (name a str) or a NavigableString (name None); text is the string       *)
(* itself, or for a tag the string that opens its contents.  href,         *)
(* attr_name and content are the attributes href, name and content (None:  *)
(* the attribute is absent).                                               *)

Tag(tagName, parent, txt) ==
    [name |-> Str(tagName), parent |-> parent, text |-> txt,
     href |-> None, attr_name |-> None, content |-> None]

NavigableString(parent, txt) ==
    [name |-> None, parent |-> parent, text |-> txt,
     href |-> None, attr_name |-> None, content |-> None]

\* tag names: title, meta, a, p, ul, li
TitleName == <<116, 105, 116, 108, 101>>
MetaName == <<109, 101, 116, 97>>
AName == <<97>>
PName == <<112>>
UlName == <<117, 108>>
LiName == <<108, 105>>

\* ['h1', 'h2', 'h3', 'h4', 'h5', 'h6']
HeadingNames == {<<104, d>> : d \in 49..54}

\* 'description'
DescriptionName == <<100, 101, 115, 99, 114, 105, 112, 116, 105, 111, 110>>

\* "No Title", "No Description"
NoTitle == <<78, 111, 32, 84, 105, 116, 108, 101>>
NoDescription == <<78, 111, 32, 68, 101, 115, 99, 114, 105, 112, 116, 105, 111, 110>>

IsTag(n) == n.name.type = "str"

\* bool(node): a Tag is always true, a NavigableString when it is not empty
NodeTruthy(n) == IsTag(n) \/ Len(n.text) > 0

\* node j lies below node k
RECURSIVE IsDescendant(_, _, _)
IsDescendant(t, k, j) ==
    /\ j # 0
    /\ t[j].parent # 0
    /\ (t[j].parent = k \/ IsDescendant(t, k, t[j].parent))

\* the indices of the tree, in document order
Indices(t) == [j \in 1..Len(t) |-> j]

\* tag.find_all(names): the tags below k (0: the whole tree) with one of the names
find_all(t, k, names) ==
    SelectSeq(Indices(t),
              LAMBDA j : /\ IsTag(t[j])
                         /\ t[j].name.chars \in names
                         /\ (k = 0 \/ IsDescendant(t, k, j)))

\* node.get_text(): the strings of the node and of everything below it
RECURSIVE TextFrom(_, _, _)
TextFrom(t, k, j) ==
    IF j > Len(t) THEN <<>>
    ELSE (IF j = k \/ IsDescendant(t, k, j) THEN t[j].text ELSE <<>>) \o TextFrom(t, k, j + 1)

get_text(t, k) == TextFrom(t, k, k)

\* the child nodes of k
Children(t, k) == SelectSeq(Indices(t), LAMBDA j : t[j].parent = k)

\* tag.string: the tag's only string, looked for through only children
RECURSIVE TagString(_, _)
TagString(t, k) ==
    LET kids == Children(t, k)
    IN  IF Len(t[k].text) > 0
        THEN (IF kids = <<>> THEN Str(t[k].text) ELSE None)
        ELSE IF Len(kids) # 1 THEN None
        ELSE IF IsTag(t[kids[1]]) THEN TagString(t, kids[1])
        ELSE Str(t[kids[1]].text)

---------------------------------------------------------------------------
(* extract_content, the part that reads the tree: src/Script.py 44-75,     *)
(* src/playwright_scraper.py 30-57                                         *)

MetadataEntry(title, pageUrl, meta_desc) ==
    [type |-> "metadata", title |-> title, url |-> pageUrl, meta_desc |-> meta_desc]

HeadingEntry(heading, content) ==
    [type |-> "heading_content", heading |-> heading, content |-> content]

LinkEntry(txt, target) == [type |-> "link", text |-> txt, url |-> target]

\* one "- " line per li below the list k
ListLines(t, k) ==
    LET items == find_all(t, k, {LiName})
    IN  [n \in 1..Len(items) |-> <<45, 32>> \o strip(get_text(t, items[n]))]

\* the chain heading.next_sibling, .next_sibling, ...: the nodes after k
\* that have k's parent, in order
FollowingSiblings(t, k) ==
    SelectSeq(Indices(t), LAMBDA j : j > k /\ t[j].parent = t[k].parent)

\* the loop's exits: `while next_elem` on a false node, and the break on a
\* tag whose name starts with "h"
EndsScan(n) ==
    \/ ~NodeTruthy(n)
    \/ (IsTag(n) /\ StartsWith(n.name.chars, <<104>>))

\* what one pass of the loop appends to content for next_elem = node j
SiblingLines(t, j) ==
    IF IsTag(t[j]) /\ t[j].name.chars = PName THEN <<strip(get_text(t, j))>>
    ELSE IF IsTag(t[j]) /\ t[j].name.chars = UlName THEN ListLines(t, j)
    ELSE <<>>

\* lines 82-97: the siblings are scanned up to the first that ends the scan
extract_associated_content(t, heading) ==
    LET sibs == FollowingSiblings(t, heading)
        stops == {n \in 1..Len(sibs) : EndsScan(t[sibs[n]])}
        last == IF stops = {} THEN Len(sibs)
                ELSE (CHOOSE n \in stops : \A m \in stops : n <= m) - 1
    IN  Join(Concat([n \in 1..last |-> SiblingLines(t, sibs[n])]), 10)

\* lines 45-47: the title and the description, or the exception they raise
Metadata(t, pageUrl) ==
    LET titles == find_all(t, 0, {TitleName})
        metas == SelectSeq(find_all(t, 0, {MetaName}),
                           LAMBDA j : t[j].attr_name = Str(DescriptionName))
        titleString == IF titles = <<>> THEN None ELSE TagString(t, titles[1])
    IN  IF titles # <<>> /\ titleString = None
        THEN [raised |-> "AttributeError", entry |-> <<>>]
        ELSE IF metas # <<>> /\ t[metas[1]].content = None
        THEN [raised |-> "KeyError", entry |-> <<>>]
        ELSE [raised |-> "none",
              entry |-> <<MetadataEntry(
                  IF titles = <<>> THEN NoTitle ELSE strip(titleString.chars),
                  pageUrl,
                  IF metas = <<>> THEN NoDescription
                  ELSE strip(t[metas[1]].content.chars))>>]

\* lines 58-65: one entry per heading found, in document order
HeadingEntries(t) ==
    LET headings == find_all(t, 0, HeadingNames)
    IN  [n \in 1..Len(headings) |->
            HeadingEntry(strip(get_text(t, headings[n])),
                         extract_associated_content(t, headings[n]))]

\* soup.find_all('a', href=True)
Anchors(t) == SelectSeq(find_all(t, 0, {AName}), LAMBDA j : t[j].href # None)

\* lines 68-75, from the n-th anchor on: the entries appended, and the
\* exception normalize_url raised, which ends the loop
RECURSIVE LinkEntries(_, _, _, _)
LinkEntries(t, pageUrl, n, entries) ==
    LET anchors == Anchors(t)
    IN  IF n > Len(anchors) THEN [raised |-> "none", entries |-> entries]
        ELSE LET dest == t[anchors[n]].href.chars
                 label == strip(get_text(t, anchors[n]))
                 target == normalize_url(pageUrl, dest)
             IN  IF ~is_valid_link(dest) THEN LinkEntries(t, pageUrl, n + 1, entries)
                 ELSE IF target.raised # "none"
                 THEN [raised |-> target.raised, entries |-> entries]
                 ELSE LinkEntries(t, pageUrl, n + 1,
                          Append(entries,
                                 LinkEntry(IF label # <<>> THEN label ELSE dest,
                                           target.value.chars)))

\* lines 44-75: content_data afterwards, and the exception that ended them
ExtractFromTree(t, pageUrl, data) ==
    LET meta == Metadata(t, pageUrl)
        links == LinkEntries(t, pageUrl, 1, <<>>)
    IN  IF meta.raised # "none" THEN [raised |-> meta.raised, content_data |-> data]
        ELSE [raised |-> links.raised,
              content_data |-> data \o meta.entry \o HeadingEntries(t) \o links.entries]

---------------------------------------------------------------------------
(* The live page that extract_tab_content drives: a tab list with one      *)
(* panel per tab control.                                                  *)
(* controls: the [role="tab"] elements now in the page, in document order; *)
(* each has its label, the text of its panel (None: it has no panel, its   *)
(* activation hides every panel) and what its activation does to the       *)
(* control set: "keep" it, "rerender" it (the same controls as new         *)
(* elements) or "drop_last" (re-rendered without its last control).        *)
(* panels: the panel texts, by the index of their control at load.         *)
(* visible: the index of the panel matching                                *)
(* [role="tabpanel"]:not([hidden]) (0: none).  gen counts the              *)
(* re-renderings: an element handle is attached while its gen is the       *)
(* page's.  clicks counts the clicks; a handle records the count at which  *)
(* it was obtained.  pending: the activations clicked but not yet carried  *)
(* out by the page's scripts; the page carries them out in its own time    *)
(* (PageSettles), before or after the program's next command.              *)

Control(label, panel, after) == [label |-> label, panel |-> panel, after |-> after]

\* the page at load, showing the panel `shown`
PageShowing(controls, shown) ==
    [controls |-> controls,
     panels |-> [k \in 1..Len(controls) |-> controls[k].panel],
     gen |-> 0, visible |-> shown, clicks |-> 0, pending |-> <<>>]

\* the page at load, showing no panel
PageOf(controls) == PageShowing(controls, 0)

Handle(pg, k) ==
    [idx |-> k, gen |-> pg.gen, clicks |-> pg.clicks, label |-> pg.controls[k].label]

\* find_elements / query_selector_all: handles of the controls now in the page
Handles(pg) == [k \in 1..Len(pg.controls) |-> Handle(pg, k)]

Attached(pg, h) == h.gen = pg.gen

\* the page after the control behind handle h has been clicked: its
\* activation is pending
Click(pg, h) ==
    [pg EXCEPT !.clicks = @ + 1,
               !.pending = Append(@, [show |-> IF pg.panels[h.idx] = None THEN 0 ELSE h.idx,
                                      after |-> pg.controls[h.idx].after])]

\* the page after its scripts have carried out the oldest pending activation
Settle(pg) ==
    [pg EXCEPT !.pending = Tail(@),
               !.visible = Head(pg.pending).show,
               !.controls = IF Head(pg.pending).after = "drop_last" /\ @ # <<>>
                            THEN SubSeq(@, 1, Len(@) - 1) ELSE @,
               !.gen = IF Head(pg.pending).after = "keep" THEN @ ELSE @ + 1]

NoFault == [step |-> "none", at |-> 0]

\* the browser command `step` of iteration `at` is the one that fails
Fails(step, at) == fault = [step |-> step, at |-> at]

TabEntry(name, content) == [tab_name |-> name, content |-> content]

\* handle h is used on the page pg
Use(h, pg) == <<[handle |-> h, clicks |-> pg.clicks]>>

\* lines 120-124 / 84-88: the entry appended for a panel text, if any
EntryFor(label, panel_text) ==
    IF strip(panel_text) # <<>>
    THEN <<TabEntry(strip(label), strip(panel_text))>>
    ELSE <<>>

\* `except Exception` (src/Script.py 125-126, src/playwright_scraper.py
\* 89-90) catches exc: every exception the browser commands raise derives
\* from Exception
ExceptTimeoutOnly(exc) == exc = "TimeoutException"

ExceptException(exc) ==
    exc \in {"TimeoutException", "NoSuchElementException",
             "StaleElementReferenceException", "WebDriverException", "Error"}

\* the positions inside the loop of extract_tab_content
LoopPcs == {"tabs_loop", "tab_text", "tab_click", "tab_panel", "tab_panel_text"}

\* exc is raised inside the try block: the handler catches it and the call
\* returns (to `back`), or it leaves the call
TabRaises(exc, back) ==
    IF ExceptException(exc)
    THEN /\ caught' = exc
         /\ pc' = back
         /\ UNCHANGED raised
    ELSE /\ raised' = exc
         /\ pc' = "crashed"
         /\ UNCHANGED caught

\* the page's scripts carry out a pending activation while
\* extract_tab_content runs (during the sleep of src/Script.py 114 or the
\* wait of src/playwright_scraper.py 80, or between two other commands)
PageSettles ==
    /\ pc \in LoopPcs
    /\ page.pending # <<>>
    /\ page' = Settle(page)
    /\ UNCHANGED <<pc, url, textVars, urlVars, variant, soup, content_data, tab_data,
                   raised, fault, tabs, range_len, caught, pdf, driver, acted, i,
                   tab_name, active_panel, late>>

---------------------------------------------------------------------------
(* extract_tab_content of the Selenium pipeline: src/Script.py 99-126      *)

\* lines 102-104: WebDriverWait(...).until(presence_of_all_elements_located)
\* raises TimeoutException when no control shows up
LocateSelenium ==
    IF Fails("locate", 0) THEN "WebDriverException"
    ELSE IF page.controls = <<>> THEN "TimeoutException"
    ELSE "none"

TabsLocateSelenium ==
    /\ pc = "tabs_locate"
    /\ variant = "selenium"
    /\ IF LocateSelenium = "none"
       THEN /\ tabs' = Handles(page)
            /\ range_len' = Len(page.controls)
            /\ i' = 0
            /\ pc' = "tabs_loop"
            /\ UNCHANGED <<caught, raised>>
       ELSE /\ TabRaises(LocateSelenium, "extracted")
            /\ UNCHANGED <<tabs, range_len, i>>
    /\ UNCHANGED <<url, textVars, urlVars, variant, soup, content_data, tab_data,
                   page, fault, pdf, driver, acted, tab_name, active_panel, late>>

\* lines 106-111: i being in range(len(tabs)), the list is looked up afresh
\* (107); an index past it is skipped (108-109), else tab = tabs[i]
TabFindSelenium ==
    /\ pc = "tabs_loop"
    /\ variant = "selenium"
    /\ i < range_len
    /\ IF Fails("find", i)
       THEN /\ TabRaises("WebDriverException", "extracted")
            /\ UNCHANGED <<tabs, i>>
       ELSE /\ tabs' = Handles(page)
            /\ i' = IF i >= Len(page.controls) THEN i + 1 ELSE i
            /\ pc' = IF i >= Len(page.controls) THEN "tabs_loop" ELSE "tab_text"
            /\ UNCHANGED <<caught, raised>>
    /\ UNCHANGED <<url, textVars, urlVars, variant, soup, content_data, tab_data,
                   page, fault, range_len, pdf, driver, acted, tab_name,
                   active_panel, late>>

\* line 112: tab_name = tab.text.strip(); the command raises
\* StaleElementReferenceException on an element that has left the page
TabTextSelenium ==
    /\ pc = "tab_text"
    /\ variant = "selenium"
    /\ acted' = acted \o Use(tabs[i + 1], page)
    /\ IF Fails("text", i)
       THEN /\ TabRaises("WebDriverException", "extracted")
            /\ UNCHANGED tab_name
       ELSE IF ~Attached(page, tabs[i + 1])
       THEN /\ TabRaises("StaleElementReferenceException", "extracted")
            /\ UNCHANGED tab_name
       ELSE /\ tab_name' = strip(tabs[i + 1].label)
            /\ pc' = "tab_click"
            /\ UNCHANGED <<caught, raised>>
    /\ UNCHANGED <<url, textVars, urlVars, variant, soup, content_data, tab_data,
                   page, fault, tabs, range_len, pdf, driver, i, active_panel, late>>

\* lines 113-114: tab.click(), then time.sleep(1); what the page does during
\* the sleep is PageSettles
TabClickSelenium ==
    /\ pc = "tab_click"
    /\ variant = "selenium"
    /\ IF Fails("click", i)
       THEN /\ TabRaises("WebDriverException", "extracted")
            /\ UNCHANGED page
       ELSE IF ~Attached(page, tabs[i + 1])
       THEN /\ TabRaises("StaleElementReferenceException", "extracted")
            /\ UNCHANGED page
       ELSE /\ page' = Click(page, tabs[i + 1])
            /\ pc' = "tab_panel"
            /\ UNCHANGED <<caught, raised>>
    /\ UNCHANGED <<url, textVars, urlVars, variant, soup, content_data, tab_data,
                   fault, tabs, range_len, pdf, driver, acted, i, tab_name,
                   active_panel, late>>

\* line 117: find_element raises NoSuchElementException when no panel is
\* visible
TabPanelSelenium ==
    /\ pc = "tab_panel"
    /\ variant = "selenium"
    /\ late' = (late \/ page.pending # <<>>)
    /\ IF Fails("panel", i)
       THEN /\ TabRaises("WebDriverException", "extracted")
            /\ UNCHANGED active_panel
       ELSE IF page.visible = 0
       THEN /\ TabRaises("NoSuchElementException", "extracted")
            /\ UNCHANGED active_panel
       ELSE /\ active_panel' = page.visible
            /\ pc' = "tab_panel_text"
            /\ UNCHANGED <<caught, raised>>
    /\ UNCHANGED <<url, textVars, urlVars, variant, soup, content_data, tab_data,
                   page, fault, tabs, range_len, pdf, driver, acted, i, tab_name>>

\* WebElement.text: the text of the panel as rendered, '' once it is hidden
PanelTextSelenium(pg, panel) ==
    IF pg.visible = panel THEN pg.panels[panel].chars ELSE <<>>

\* lines 118-124: panel_text = active_panel.text.strip(), appended with the
\* label when it is not empty; the pass ends
TabPanelTextSelenium ==
    /\ pc = "tab_panel_text"
    /\ variant = "selenium"
    /\ IF Fails("panel_text", i)
       THEN /\ TabRaises("WebDriverException", "extracted")
            /\ UNCHANGED <<tab_data, i>>
       ELSE /\ tab_data' = tab_data
                    \o EntryFor(tab_name, PanelTextSelenium(page, active_panel))
            /\ i' = i + 1
            /\ pc' = "tabs_loop"
            /\ UNCHANGED <<caught, raised>>
    /\ UNCHANGED <<url, textVars, urlVars, variant, soup, content_data, page, fault,
                   tabs, range_len, pdf, driver, acted, tab_name, active_panel, late>>

---------------------------------------------------------------------------
(* extract_tab_content of the Playwright pipeline:                         *)
(* src/playwright_scraper.py 73-90                                         *)

\* line 76: tabs = await page.query_selector_all('[role="tab"]')
LocatePlaywright == IF Fails("locate", 0) THEN "Error" ELSE "none"

TabsLocatePlaywright ==
    /\ pc = "tabs_locate"
    /\ variant = "playwright"
    /\ IF LocatePlaywright = "none"
       THEN /\ tabs' = Handles(page)
            /\ range_len' = Len(page.controls)
            /\ i' = 0
            /\ pc' = "tabs_loop"
            /\ UNCHANGED <<caught, raised>>
       ELSE /\ TabRaises(LocatePlaywright, "fetched")
            /\ UNCHANGED <<tabs, range_len, i>>
    /\ UNCHANGED <<url, textVars, urlVars, variant, soup, content_data, tab_data,
                   page, fault, pdf, driver, acted, tab_name, active_panel, late>>

\* lines 77-78: the next handle of the list taken at line 76;
\* tab_name = await tab.inner_text() reads the element the handle holds,
\* in the page or not
TabTextPlaywright ==
    /\ pc = "tabs_loop"
    /\ variant = "playwright"
    /\ i < range_len
    /\ acted' = acted \o Use(tabs[i + 1], page)
    /\ IF Fails("text", i)
       THEN /\ TabRaises("Error", "fetched")
            /\ UNCHANGED tab_name
       ELSE /\ tab_name' = tabs[i + 1].label
            /\ pc' = "tab_click"
            /\ UNCHANGED <<caught, raised>>
    /\ UNCHANGED <<url, textVars, urlVars, variant, soup, content_data, tab_data,
                   page, fault, tabs, range_len, pdf, driver, i, active_panel, late>>

\* lines 79-80: await tab.click() raises on a handle that is no longer
\* attached; then await page.wait_for_timeout(1000); what the page does
\* meanwhile is PageSettles
TabClickPlaywright ==
    /\ pc = "tab_click"
    /\ variant = "playwright"
    /\ IF Fails("click", i) \/ ~Attached(page, tabs[i + 1])
       THEN /\ TabRaises("Error", "fetched")
            /\ UNCHANGED page
       ELSE /\ page' = Click(page, tabs[i + 1])
            /\ pc' = "tab_panel"
            /\ UNCHANGED <<caught, raised>>
    /\ UNCHANGED <<url, textVars, urlVars, variant, soup, content_data, tab_data,
                   fault, tabs, range_len, pdf, driver, acted, i, tab_name,
                   active_panel, late>>

\* lines 81-82: query_selector returns None when no panel is visible, and
\* the pass ends
TabPanelPlaywright ==
    /\ pc = "tab_panel"
    /\ variant = "playwright"
    /\ late' = (late \/ page.pending # <<>>)
    /\ IF Fails("panel", i)
       THEN /\ TabRaises("Error", "fetched")
            /\ UNCHANGED <<active_panel, i>>
       ELSE /\ active_panel' = page.visible
            /\ i' = IF page.visible = 0 THEN i + 1 ELSE i
            /\ pc' = IF page.visible = 0 THEN "tabs_loop" ELSE "tab_panel_text"
            /\ UNCHANGED <<caught, raised>>
    /\ UNCHANGED <<url, textVars, urlVars, variant, soup, content_data, tab_data,
                   page, fault, tabs, range_len, pdf, driver, acted, tab_name>>

\* ElementHandle.inner_text(): the text of the element the handle holds,
\* rendered or hidden
PanelTextPlaywright(pg, panel) == pg.panels[panel].chars

\* lines 83-88: panel_text = await panel.inner_text(), appended with the
\* label when it is not empty once stripped; the pass ends
TabPanelTextPlaywright ==
    /\ pc = "tab_panel_text"
    /\ variant = "playwright"
    /\ IF Fails("panel_text", i)
       THEN /\ TabRaises("Error", "fetched")
            /\ UNCHANGED <<tab_data, i>>
       ELSE /\ tab_data' = tab_data
                    \o EntryFor(tab_name, PanelTextPlaywright(page, active_panel))
            /\ i' = i + 1
            /\ pc' = "tabs_loop"
            /\ UNCHANGED <<caught, raised>>
    /\ UNCHANGED <<url, textVars, urlVars, variant, soup, content_data, page, fault,
                   tabs, range_len, pdf, driver, acted, tab_name, active_panel, late>>

\* the loop has run through its range: extract_tab_content returns
TabsReturn ==
    /\ pc = "tabs_loop"
    /\ i >= range_len
    /\ pc' = IF variant = "selenium" THEN "extracted" ELSE "fetched"
    /\ UNCHANGED <<url, textVars, urlVars, pipeVars>>

---------------------------------------------------------------------------
(* The two pipelines up to the end of extraction.                          *)
(* Selenium (src/Script.py 220-221): the constructor has opened the page;  *)
(* extract_content reads the tree and then calls extract_tab_content.      *)
(* Playwright (src/playwright_scraper.py 164-166): fetch_page parses the   *)
(* page and calls extract_tab_content; extract_content then reads the tree.*)

\* src/Script.py 40-78: an exception of lines 44-75 leaves extract_content,
\* and main with it; otherwise line 78 calls extract_tab_content
ExtractContentSelenium ==
    /\ pc = "constructed"
    /\ variant = "selenium"
    /\ LET r == ExtractFromTree(soup, url, content_data)
       IN  /\ content_data' = r.content_data
           /\ raised' = r.raised
           /\ pc' = IF r.raised = "none" THEN "tabs_locate" ELSE "crashed"
    /\ UNCHANGED <<url, textVars, urlVars, variant, soup, tab_data, page, fault,
                   tabs, range_len, caught, pdf, driver, acted, i,
                   tab_name, active_panel, late>>

\* src/playwright_scraper.py 18-26: fetch_page up to its call of
\* extract_tab_content
FetchPage ==
    /\ pc = "constructed"
    /\ variant = "playwright"
    /\ pc' = "tabs_locate"
    /\ UNCHANGED <<url, textVars, urlVars, pipeVars>>

\* src/playwright_scraper.py 29-57: extract_content, after fetch_page
ExtractContentPlaywright ==
    /\ pc = "fetched"
    /\ variant = "playwright"
    /\ LET r == ExtractFromTree(soup, url, content_data)
       IN  /\ content_data' = r.content_data
           /\ raised' = r.raised
           /\ pc' = IF r.raised = "none" THEN "extracted" ELSE "crashed"
    /\ UNCHANGED <<url, textVars, urlVars, variant, soup, tab_data, page, fault,
                   tabs, range_len, caught, pdf, driver, acted, i,
                   tab_name, active_panel, late>>

---------------------------------------------------------------------------
(* generate_pdf: src/Script.py 171-212, src/playwright_scraper.py 119-157. *)
(* self.pdf is the sequence of the layout commands issued to FPDF.         *)

Command(op, style, size, align, txt) ==
    [op |-> op, style |-> style, size |-> size, align |-> align, text |-> txt]

SetFont(style, size) == Command("set_font", style, size, "", <<>>)

\* cell(0, h, txt, 0, 1, align)
Cell(h, txt, align) == Command("cell", "", h, align, txt)

\* multi_cell(w, h, txt, align=align)
MultiCell(h, txt, align) == Command("multi_cell", "", h, align, txt)

Ln(h) == Command("ln", "", h, "", <<>>)

\* set_text_color(r, g, b)
SetTextColor(r, g, b) == Command("set_text_color", "", 0, "", <<r, g, b>>)

AddPage == Command("add_page", "", 0, "", <<>>)

Output == Command("output", "", 0, "", <<>>)

\* __init__ (src/Script.py 23-26, src/playwright_scraper.py 13-16):
\* set_auto_page_break(auto=True, margin=15), add_page(), set_font("Arial", size=12)
InitCommands == <<Command("set_auto_page_break", "", 15, "", <<>>), AddPage, SetFont("", 12)>>

\* self.clean_text(s), for a str s
Cleaned(s) == clean_text(Str(s)).value.chars

\* "Tabbed Content"
TabbedContent == <<84, 97, 98, 98, 101, 100, 32, 67, 111, 110, 116, 101, 110, 116>>

\* f"{item['text']} -> {item['url']}"
LinkLine(item) == item.text \o <<32, 45, 62, 32>> \o item.url

\* lines 174-180 / 121-128: the title block
MetadataCommands(v, metadata) ==
    IF v = "selenium"
    THEN <<SetFont("B", 16), Cell(10, Cleaned(metadata.title), "C"),
           SetFont("", 12), Cell(10, Cleaned(metadata.url), "C"),
           Cell(10, Cleaned(metadata.meta_desc), "C"), Ln(10)>>
    ELSE <<SetFont("B", 16), MultiCell(10, Cleaned(metadata.title), "C"), Ln(2),
           SetFont("", 12), MultiCell(8, Cleaned(metadata.url), "C"), Ln(2),
           MultiCell(8, Cleaned(metadata.meta_desc), "C"), Ln(8)>>

\* lines 183-193 / 130-143: what one pass of the loop over content_data issues
ItemCommands(v, item) ==
    IF item.type = "heading_content"
    THEN (IF v = "selenium"
          THEN <<SetFont("B", 14), Cell(10, Cleaned(item.heading), ""),
                 SetFont("", 12), MultiCell(8, Cleaned(item.content), ""), Ln(5)>>
          ELSE <<SetFont("B", 14), MultiCell(9, Cleaned(item.heading), ""), Ln(1),
                 SetFont("", 12), MultiCell(8, Cleaned(item.content), ""), Ln(4)>>)
    ELSE IF item.type = "link"
    THEN (IF v = "selenium"
          THEN <<SetTextColor(0, 0, 255), Cell(8, Cleaned(LinkLine(item)), ""),
                 SetTextColor(0, 0, 0)>>
          ELSE <<SetTextColor(0, 0, 255), SetFont("", 12),
                 MultiCell(8, Cleaned(LinkLine(item)), ""),
                 SetTextColor(0, 0, 0), Ln(2)>>)
    ELSE <<>>

\* lines 201-206 / 149-155: what one pass of the loop over tab_data issues
TabCommands(v, tab) ==
    IF v = "selenium"
    THEN <<SetFont("B", 14), Cell(10, Cleaned(tab.tab_name), ""),
           SetFont("", 12), MultiCell(8, Cleaned(tab.content), ""), Ln(5)>>
    ELSE <<SetFont("B", 14), MultiCell(9, Cleaned(tab.tab_name), ""), Ln(1),
           SetFont("", 12), MultiCell(8, Cleaned(tab.content), ""), Ln(4)>>

\* the tab block issued whether or not there is an entry
TabSectionAlways(v, data) ==
    <<AddPage, SetFont("B", 16)>>
    \o (IF v = "selenium" THEN <<Cell(10, TabbedContent, ""), Ln(5)>>
        ELSE <<MultiCell(10, TabbedContent, ""), Ln(4)>>)
    \o Concat([n \in 1..Len(data) |-> TabCommands(v, data[n])])

\* lines 196-206 / 144-155: `if self.tab_data:` and its block
TabSectionCommands(v, data) ==
    IF data = <<>> THEN <<>>
    ELSE <<AddPage, SetFont("B", 16)>>
         \o (IF v = "selenium" THEN <<Cell(10, TabbedContent, ""), Ln(5)>>
             ELSE <<MultiCell(10, TabbedContent, ""), Ln(4)>>)
         \o Concat([n \in 1..Len(data) |-> TabCommands(v, data[n])])

\* lines 174-206 / 120-155: the commands issued before pdf.output
RenderCommands(v, items, data) ==
    MetadataCommands(v, SelectSeq(items, LAMBDA item : item.type = "metadata")[1])
    \o Concat([n \in 1..Len(items) |-> ItemCommands(v, items[n])])
    \o TabSectionCommands(v, data)

\* next(item for item in self.content_data if item['type'] == 'metadata')
\* raises StopIteration when there is none
HasMetadata(items) == \E n \in 1..Len(items) : items[n].type = "metadata"

\* src/Script.py 171-212, after extract_content has returned: the layout
\* commands, pdf.output (an I/O failure leaves generate_pdf, and main with
\* it), then self.driver.quit() at line 211
GeneratePdfSelenium ==
    /\ pc = "extracted"
    /\ variant = "selenium"
    /\ IF ~HasMetadata(content_data)
       THEN /\ raised' = "StopIteration"
            /\ pc' = "render_error"
            /\ UNCHANGED <<pdf, driver>>
       ELSE IF Fails("output", 0)
       THEN /\ pdf' = pdf \o RenderCommands(variant, content_data, tab_data)
            /\ raised' = "OSError"
            /\ pc' = "render_error"
            /\ UNCHANGED driver
       ELSE /\ pdf' = pdf \o RenderCommands(variant, content_data, tab_data) \o <<Output>>
            /\ driver' = "quit"
            /\ pc' = "done"
            /\ UNCHANGED raised
    /\ UNCHANGED <<url, textVars, urlVars, variant, soup, content_data, tab_data, page,
                   fault, tabs, range_len, caught, acted, i, tab_name, active_panel,
                   late>>

\* src/playwright_scraper.py 119-157, after extract_content has returned
GeneratePdfPlaywright ==
    /\ pc = "extracted"
    /\ variant = "playwright"
    /\ IF ~HasMetadata(content_data)
       THEN /\ raised' = "StopIteration"
            /\ pc' = "render_error"
            /\ UNCHANGED pdf
       ELSE IF Fails("output", 0)
       THEN /\ pdf' = pdf \o RenderCommands(variant, content_data, tab_data)
            /\ raised' = "OSError"
            /\ pc' = "render_error"
       ELSE /\ pdf' = pdf \o RenderCommands(variant, content_data, tab_data) \o <<Output>>
            /\ pc' = "done"
            /\ UNCHANGED raised
    /\ UNCHANGED <<url, textVars, urlVars, variant, soup, content_data, tab_data, page,
                   fault, tabs, range_len, caught, driver, acted, i, tab_name,
                   active_panel, late>>

---------------------------------------------------------------------------
(* Scenario: clean_text applied to an argument, then to its own result *)

\* characters of the clean_text arguments: ASCII, Latin-1 (233, 255), the
\* first code point past Latin-1 (256), the euro sign (8364), an emoji
\* (128512) and the ten characters of the table
TextChars == {97, 45, 233, 255, 256, 8364, 128512,
              8594, 8592, 8211, 8212, 8216, 8217, 8220, 8221, 8226, 8230}

TextArgs == {None} \cup {Str(s) : s \in SeqsUpTo(TextChars, MaxText)}

IdleUrl == /\ href = <<>>
           /\ normalized = NotRun

IdlePipeline ==
    /\ variant = "none"
    /\ soup = <<>>
    /\ content_data = <<>>
    /\ tab_data = <<>>
    /\ raised = "none"
    /\ page = PageOf(<<>>)
    /\ fault = NoFault
    /\ tabs = <<>>
    /\ range_len = 0
    /\ caught = "none"
    /\ pdf = <<>>
    /\ driver = "none"
    /\ acted = <<>>
    /\ i = 0
    /\ tab_name = <<>>
    /\ active_panel = 0
    /\ late = FALSE

InitText ==
    /\ pc = "text"
    /\ text \in TextArgs
    /\ cleaned = NotRun
    /\ recleaned = NotRun
    /\ url = <<>>
    /\ IdleUrl
    /\ IdlePipeline

\* cleaned = self.clean_text(text)
CleanText ==
    /\ pc = "text"
    /\ cleaned' = clean_text(text)
    /\ pc' = "cleaned"
    /\ UNCHANGED <<text, recleaned, url, urlVars, pipeVars>>

\* recleaned = self.clean_text(cleaned), when the first call returned
CleanTextAgain ==
    /\ pc = "cleaned"
    /\ cleaned.raised = "none"
    /\ recleaned' = clean_text(cleaned.value)
    /\ pc' = "recleaned"
    /\ UNCHANGED <<text, cleaned, url, urlVars, pipeVars>>

NextText == CleanText \/ CleanTextAgain

SpecText == InitText /\ [][NextText]_vars

---------------------------------------------------------------------------
(* Scenario: normalize_url applied to a destination on a page *)

\* longest generated destination, in characters
MaxHref == 3

\* https://example.com/x
ExamplePage ==
    <<104, 116, 116, 112, 115, 58, 47, 47, 101, 120, 97, 109, 112, 108, 101, 46,
      99, 111, 109, 47, 120>>

\* page URLs: https://example.com/x, http://h/a/b?q#f, about:blank
PageUrls ==
    { ExamplePage,
      <<104, 116, 116, 112, 58, 47, 47, 104, 47, 97, 47, 98, 63, 113, 35, 102>>,
      <<97, 98, 111, 117, 116, 58, 98, 108, 97, 110, 107>> }

\* characters of the generated destinations: / . # ? [ ] ; : space a
HrefChars == {47, 46, 35, 63, 91, 93, 59, 58, 32, 97}

\* /about, //host/path, https://other.com, about, javascript:a, mailto:a,
\* tel:a, /a/..;p, /a;b/c, //[::1]/p, //[1.2.3.4]/p, //[v1.a]/p, //[x]/p,
\* //<U+2100>/p
NamedHrefs ==
    { <<47, 97, 47, 46, 46, 59, 112>>,
      <<47, 97, 59, 98, 47, 99>>,
      <<47, 47, 91, 58, 58, 49, 93, 47, 112>>,
      <<47, 47, 91, 49, 46, 50, 46, 51, 46, 52, 93, 47, 112>>,
      <<47, 47, 91, 118, 49, 46, 97, 93, 47, 112>>,
      <<47, 47, 91, 120, 93, 47, 112>>,
      <<47, 47, 8448, 47, 112>> } \cup
    { <<47, 97, 98, 111, 117, 116>>,
      <<47, 47, 104, 111, 115, 116, 47, 112, 97, 116, 104>>,
      <<104, 116, 116, 112, 115, 58, 47, 47, 111, 116, 104, 101, 114, 46, 99, 111, 109>>,
      <<97, 98, 111, 117, 116>>,
      JavascriptScheme \o <<97>>,
      MailtoScheme \o <<97>>,
      TelScheme \o <<97>> }

Hrefs == NamedHrefs \cup SeqsUpTo(HrefChars, MaxHref)

IdleText == /\ text = None
            /\ cleaned = NotRun
            /\ recleaned = NotRun

InitUrl ==
    /\ pc = "url"
    /\ url \in PageUrls
    /\ href \in Hrefs
    /\ normalized = NotRun
    /\ IdleText
    /\ IdlePipeline

\* normalized = self.normalize_url(href)
NormalizeUrl ==
    /\ pc = "url"
    /\ normalized' = normalize_url(url, href)
    /\ pc' = "normalized"
    /\ UNCHANGED <<url, href, textVars, pipeVars>>

NextUrl == NormalizeUrl

SpecUrl == InitUrl /\ [][NextUrl]_vars

---------------------------------------------------------------------------
(* Scenario: a run of either pipeline on a page, up to the end of          *)
(* extraction.  The pages are of four families: bodies of headings and     *)
(* their siblings, lists of anchors, heads of title and meta tags (each on *)
(* a page without tab controls), and sessions of tab controls.             *)

\* most nodes of a generated body
MaxBody == 3

\* most anchors of a generated list of anchors
MaxAnchors == 2

\* most meta tags of a generated head
MaxMetas == 2

\* most tab controls of a generated session
MaxTabs == 2

\* nodes re-parented for a tree they follow k nodes into
Shift(nodes, k) ==
    [j \in 1..Len(nodes) |->
        [nodes[j] EXCEPT !.parent = IF @ = 0 THEN 0 ELSE @ + k]]

MetaTag(attr_name, content) ==
    [Tag(MetaName, 0, <<>>) EXCEPT !.attr_name = attr_name, !.content = content]

Anchor(parent, txt, dest) == [Tag(AName, parent, txt) EXCEPT !.href = dest]

\* <title> T </title><meta name="description" content=" D ">
GoodHead == <<Tag(TitleName, 0, <<32, 84, 32>>),
              MetaTag(Str(DescriptionName), Str(<<32, 68, 32>>))>>

\* the k-th node of a body, of the given kind: h1, h2, p and li hold the
\* text " A ", " B ", ... by position, a string between tags is "\n"
BodyNode(kind, parent, k) ==
    CASE kind = "h1" -> Tag(<<104, 49>>, parent, <<32, 64 + k, 32>>)
      [] kind = "h2" -> Tag(<<104, 50>>, parent, <<32, 64 + k, 32>>)
      [] kind = "p" -> Tag(PName, parent, <<32, 64 + k, 32>>)
      [] kind = "li" -> Tag(LiName, parent, <<32, 64 + k, 32>>)
      [] kind = "ul" -> Tag(UlName, parent, <<>>)
      [] kind = "hr" -> Tag(<<104, 114>>, parent, <<>>)
      [] kind = "div" -> Tag(<<100, 105, 118>>, parent, <<>>)
      [] kind = "text" -> NavigableString(parent, <<10>>)

\* the nodes a further node may be put into: the tree itself (0), or a div
\* or ul that is still open (the last node or one of its ancestors)
OpenParents(b) ==
    {0} \cup {j \in 1..Len(b) :
                 /\ b[j].name.chars \in {UlName, <<100, 105, 118>>}
                 /\ (j = Len(b) \/ IsDescendant(b, j, Len(b)))}

\* a ul holds li; everything else holds anything but li
KindsUnder(b, parent) ==
    IF parent # 0 /\ b[parent].name.chars = UlName THEN {"li"}
    ELSE {"h1", "h2", "p", "ul", "hr", "div", "text"}

\* the bodies of exactly n nodes
RECURSIVE BodiesOf(_)
BodiesOf(n) ==
    IF n = 0 THEN {<<>>}
    ELSE {Append(b, BodyNode(kind, parent, n)) :
             <<b, parent, kind>> \in
                 UNION {UNION {{<<b, parent, kind>> : kind \in KindsUnder(b, parent)} :
                                  parent \in OpenParents(b)} :
                           b \in BodiesOf(n - 1)}}

SectionDocs ==
    UNION {{GoodHead \o Shift(b, Len(GoodHead)) : b \in BodiesOf(n)} : n \in 0..MaxBody}

\* destinations of the anchors: absent, "", "#", " # ", "/l", "//[",
\* "https://o", "javascript:a", "mailto:a", "tel:a"
AnchorHrefs ==
    { None, Str(<<>>), Str(<<35>>), Str(<<32, 35, 32>>), Str(<<47, 108>>),
      Str(<<47, 47, 91>>), Str(<<104, 116, 116, 112, 115, 58, 47, 47, 111>>),
      Str(JavascriptScheme \o <<97>>), Str(MailtoScheme \o <<97>>),
      Str(TelScheme \o <<97>>) }

AnchorNodes == {Anchor(0, txt, dest) : txt \in {<<>>, <<32, 76, 32>>}, dest \in AnchorHrefs}

LinkDocs == {GoodHead \o a : a \in SeqsUpTo(AnchorNodes, MaxAnchors)}

\* <h1> A </h1><p> B </p><a href="/l"> L </a>
SmallBody == <<BodyNode("h1", 0, 1), BodyNode("p", 0, 2),
               Anchor(0, <<32, 76, 32>>, Str(<<47, 108>>))>>

\* no title; <title></title>; <title> T </title>; each of the last two also
\* with a child <b>, empty or holding "B"
TitleNodes ==
    {<<>>}
    \cup {<<Tag(TitleName, 0, txt)>> : txt \in {<<>>, <<32, 84, 32>>}}
    \cup {<<Tag(TitleName, 0, txt), Tag(<<98>>, 1, inner)>> :
             txt \in {<<>>, <<32, 84, 32>>}, inner \in {<<>>, <<66>>}}

\* meta tags: name absent, "description" or "keywords"; content absent, "",
\* " D " or "E"
MetaNodes ==
    {MetaTag(attr_name, content) :
        attr_name \in {None, Str(DescriptionName),
                       Str(<<107, 101, 121, 119, 111, 114, 100, 115>>)},
        content \in {None, Str(<<>>), Str(<<32, 68, 32>>), Str(<<69>>)}}

MetaDocs ==
    {title \o metas \o Shift(SmallBody, Len(title) + Len(metas)) :
        title \in TitleNodes, metas \in SeqsUpTo(MetaNodes, MaxMetas)}

SmallDoc == GoodHead \o Shift(SmallBody, Len(GoodHead))

\* the k-th control of a session: labelled " A ", " B ", ...; its panel is
\* absent, blank or " a ", " b ", ...; a control with a blank panel is kept
ControlsAt(k) ==
    {c \in {Control(<<32, 64 + k, 32>>, panel, after) :
                panel \in {None, Str(<<32>>), Str(<<32, 96 + k, 32>>)},
                after \in {"keep", "rerender", "drop_last"}} :
        c.panel = Str(<<32>>) => c.after = "keep"}

RECURSIVE SessionsOf(_)
SessionsOf(n) ==
    IF n = 0 THEN {<<>>}
    ELSE {Append(cs, c) : cs \in SessionsOf(n - 1), c \in ControlsAt(n)}

\* the panels a page of these controls may show at load: none, or that of
\* its first control
ShownAtLoad(cs) == IF cs # <<>> /\ cs[1].panel # None THEN {0, 1} ELSE {0}

\* the pages of the controls cs
PagesOf(cs) == {PageShowing(cs, shown) : shown \in ShownAtLoad(cs)}

Sessions == UNION {UNION {PagesOf(cs) : cs \in SessionsOf(n)} : n \in 0..MaxTabs}

\* the sessions on which a browser command is made to fail: panels with
\* text or none, none shown at load, controls kept or re-rendered
FaultSessions ==
    {pg \in Sessions :
        /\ pg.visible = 0
        /\ \A k \in 1..Len(pg.controls) :
               /\ pg.controls[k].panel # Str(<<32>>)
               /\ pg.controls[k].after # "drop_last"}

Faults ==
    {NoFault, [step |-> "locate", at |-> 0], [step |-> "output", at |-> 0]}
    \cup {[step |-> step, at |-> at] :
             step \in {"find", "text", "click", "panel", "panel_text"},
             at \in 0..(MaxTabs - 1)}

Init ==
    /\ pc = "constructed"
    /\ variant \in {"selenium", "playwright"}
    /\ content_data = <<>>
    /\ tab_data = <<>>
    /\ raised = "none"
    /\ tabs = <<>>
    /\ range_len = 0
    /\ caught = "none"
    /\ pdf = InitCommands
    /\ acted = <<>>
    /\ driver = (IF variant = "selenium" THEN "open" ELSE "none")
    /\ i = 0
    /\ tab_name = <<>>
    /\ active_panel = 0
    /\ late = FALSE
    /\ \/ /\ soup \in SectionDocs \cup MetaDocs
          /\ url = ExamplePage
          /\ page = PageOf(<<>>)
          /\ fault = NoFault
       \/ /\ soup \in LinkDocs
          /\ url \in PageUrls
          /\ page = PageOf(<<>>)
          /\ fault = NoFault
       \/ /\ soup = SmallDoc
          /\ url = ExamplePage
          /\ page \in Sessions
          /\ fault = NoFault
       \/ /\ soup = SmallDoc
          /\ url = ExamplePage
          /\ page \in FaultSessions
          /\ fault \in Faults \ {NoFault}
    /\ IdleText
    /\ IdleUrl

Next ==
    \/ ExtractContentSelenium
    \/ TabsLocateSelenium
    \/ TabFindSelenium
    \/ TabTextSelenium
    \/ TabClickSelenium
    \/ TabPanelSelenium
    \/ TabPanelTextSelenium
    \/ FetchPage
    \/ TabsLocatePlaywright
    \/ TabTextPlaywright
    \/ TabClickPlaywright
    \/ TabPanelPlaywright
    \/ TabPanelTextPlaywright
    \/ PageSettles
    \/ TabsReturn
    \/ ExtractContentPlaywright
    \/ GeneratePdfSelenium
    \/ GeneratePdfPlaywright

Spec == Init /\ [][Next]_vars

---------------------------------------------------------------------------
(* Properties of clean_text (SpecText) *)

\* C1: clean_text is total and idempotent: for every argument, None and the
\* empty string included, it returns a string without raising (the empty
\* string for None and for the empty string), and cleaning its result again
\* gives the same result.
C1_CleanTextTotalIdempotent ==
    /\ pc \in {"cleaned", "recleaned"} =>
           /\ cleaned.raised = "none"
           /\ cleaned.value.type = "str"
           /\ (~Truthy(text) => cleaned.value = Str(<<>>))
    /\ pc = "recleaned" => recleaned = cleaned

\* a string holding a table character, a dropped character and a kept one
\* has been cleaned twice
C1_Witness ==
    /\ pc = "recleaned"
    /\ text = Str(<<8212, 8364, 233>>)
    /\ cleaned = Returned(Str(<<45, 45, 233>>))
    /\ recleaned = cleaned

\* the ASCII equivalent the table gives character c, <<>> when c is not in it
TableEquivalent(c) ==
    CASE c = 8594 -> <<45, 62>>
      [] c = 8592 -> <<60, 45>>
      [] c = 8211 -> <<45>>
      [] c = 8212 -> <<45, 45>>
      [] c \in {8216, 8217} -> <<39>>
      [] c \in {8220, 8221} -> <<34>>
      [] c = 8226 -> <<42>>
      [] c = 8230 -> <<46, 46, 46>>
      [] OTHER -> <<>>

\* character by character: a table character gives its equivalent, any other
\* character past Latin-1 gives nothing, a Latin-1 character gives itself
RECURSIVE CharwiseClean(_)
CharwiseClean(s) ==
    IF s = <<>> THEN <<>>
    ELSE (IF TableEquivalent(Head(s)) # <<>> THEN TableEquivalent(Head(s))
          ELSE IF Head(s) > 255 THEN <<>>
          ELSE <<Head(s)>>) \o CharwiseClean(Tail(s))

\* C2: every character of clean_text(text) is encodable in Latin-1: each
\* character of the typographic table is replaced by its ASCII equivalent,
\* every other character outside Latin-1 is dropped, and the Latin-1
\* characters are kept in their original relative order.
C2_CleanTextLatin1 ==
    (pc = "cleaned" /\ text.type = "str") =>
        /\ cleaned.raised = "none"
        /\ \A k \in 1..Len(cleaned.value.chars) : cleaned.value.chars[k] <= 255
        /\ cleaned.value.chars = CharwiseClean(text.chars)

\* "e-acute, euro, right arrow" has been cleaned to "e-acute, -, >"
C2_Witness ==
    /\ pc = "cleaned"
    /\ text = Str(<<233, 8364, 8594>>)
    /\ cleaned = Returned(Str(<<233, 45, 62>>))

---------------------------------------------------------------------------
(* Properties of normalize_url (SpecUrl) *)

\* /about and https://example.com/about
AboutHref == <<47, 97, 98, 111, 117, 116>>
AboutResolved ==
    <<104, 116, 116, 112, 115, 58, 47, 47, 101, 120, 97, 109, 112, 108, 101, 46,
      99, 111, 109, 47, 97, 98, 111, 117, 116>>

\* //host/path and https://host/path
ProtocolRelativeHref == <<47, 47, 104, 111, 115, 116, 47, 112, 97, 116, 104>>
ProtocolRelativeResolved ==
    <<104, 116, 116, 112, 115, 58, 47, 47, 104, 111, 115, 116, 47, 112, 97, 116, 104>>

\* a single leading slash
RootRelative(h) == StartsWith(h, <<47>>) /\ ~StartsWith(h, <<47, 47>>)

\* the page URL up to and including "://", for an http or https page
HttpOrigin(u) ==
    IF StartsWith(u, <<104, 116, 116, 112, 115, 58, 47, 47>>)
    THEN <<104, 116, 116, 112, 115, 58, 47, 47>>
    ELSE IF StartsWith(u, <<104, 116, 116, 112, 58, 47, 47>>)
    THEN <<104, 116, 116, 112, 58, 47, 47>>
    ELSE <<>>

\* C6 as stated: a root-relative destination is resolved against the page
\* URL ("/about" on https://example.com/x gives https://example.com/about)
\* and every other destination, a protocol-relative one included, is returned
\* unchanged.
C6_AsStated ==
    pc = "normalized" =>
        /\ (url = ExamplePage /\ href = AboutHref) =>
               normalized = Returned(Str(AboutResolved))
        /\ (~RootRelative(href) /\ normalized.raised = "none") =>
               normalized.value = Str(href)

\* C6 (amended): every destination that does not begin with "/" is returned
\* unchanged; a destination that begins with "/" is resolved against the page
\* URL, and on an http(s) page the result, when urljoin returns one, is an
\* absolute URL on the page's scheme: "/about" on https://example.com/x gives
\* https://example.com/about, and the protocol-relative "//host/path" is
\* resolved too, to https://host/path.
C6_NormalizeUrl ==
    pc = "normalized" =>
        /\ ~StartsWith(href, <<47>>) => normalized = Returned(Str(href))
        /\ (url = ExamplePage /\ href = AboutHref) =>
               normalized = Returned(Str(AboutResolved))
        /\ (url = ExamplePage /\ href = ProtocolRelativeHref) =>
               normalized = Returned(Str(ProtocolRelativeResolved))
        /\ (StartsWith(href, <<47>>) /\ HttpOrigin(url) # <<>>
                /\ normalized.raised = "none") =>
               /\ StartsWith(normalized.value.chars, HttpOrigin(url))
               /\ normalized.value.chars # href

\* the protocol-relative destination has been resolved on the example page
C6_Witness ==
    /\ pc = "normalized"
    /\ url = ExamplePage
    /\ href = ProtocolRelativeHref
    /\ normalized = Returned(Str(ProtocolRelativeResolved))

---------------------------------------------------------------------------
(* Properties of extract_content (Spec) *)

\* lines 44-75 of src/Script.py (30-57 of src/playwright_scraper.py) have run
ExtractRan ==
    \/ variant = "selenium" /\ pc # "constructed"
    \/ variant = "playwright" /\ pc \in {"extracted", "crashed", "done", "render_error"}

EntriesOfType(ty) == SelectSeq(content_data, LAMBDA e : e.type = ty)

HeadingsOfSoup == find_all(soup, 0, HeadingNames)

\* the next sibling of k that is an element is a heading
NextElementIsHeading(t, k) ==
    LET elems == SelectSeq(FollowingSiblings(t, k), LAMBDA j : IsTag(t[j]))
    IN  elems # <<>> /\ t[elems[1]].name.chars \in HeadingNames

\* C3 as stated: for every node tree, extract_content appends exactly one
\* heading_content entry per h1-h6 element of the tree, in document order,
\* whatever its body is, and a heading whose next element sibling is a
\* heading has an entry with an empty body.
C3_AsStated ==
    ExtractRan =>
        /\ Len(EntriesOfType("heading_content")) = Len(HeadingsOfSoup)
        /\ \A n \in 1..Len(HeadingsOfSoup) :
               /\ EntriesOfType("heading_content")[n].heading
                      = strip(get_text(soup, HeadingsOfSoup[n]))
               /\ NextElementIsHeading(soup, HeadingsOfSoup[n]) =>
                      EntriesOfType("heading_content")[n].content = <<>>

\* the body C4 describes for heading k: the lines of the paragraph and list
\* siblings up to the next h1-h6 sibling, no other sibling ending the scan
BodyUpToNextHeading(t, k) ==
    LET sibs == FollowingSiblings(t, k)
        stops == {n \in 1..Len(sibs) :
                     IsTag(t[sibs[n]]) /\ t[sibs[n]].name.chars \in HeadingNames}
        last == IF stops = {} THEN Len(sibs)
                ELSE (CHOOSE n \in stops : \A m \in stops : n <= m) - 1
    IN  Join(Concat([n \in 1..last |-> SiblingLines(t, sibs[n])]), 10)

\* C4 as stated: the body of every heading's entry is, in sibling order, the
\* trimmed text of each paragraph sibling and one "- " line per item of each
\* list sibling, over the following siblings up to the next h1-h6 sibling or
\* the end of the siblings; a sibling of any other type (a horizontal rule,
\* say) is ignored and does not end the scan.
C4_AsStated ==
    ExtractRan =>
        \A n \in 1..Len(EntriesOfType("heading_content")) :
            EntriesOfType("heading_content")[n].content
                = BodyUpToNextHeading(soup, HeadingsOfSoup[n])

\* the destinations C5 excludes: "#" once trimmed, and the three schemes
Rejected(h) ==
    \/ strip(h) = <<35>>
    \/ StartsWith(h, JavascriptScheme)
    \/ StartsWith(h, MailtoScheme)
    \/ StartsWith(h, TelScheme)

\* the anchors with a non-empty destination that is not excluded
LinkedAnchors ==
    SelectSeq(find_all(soup, 0, {AName}),
              LAMBDA j : /\ soup[j].href # None
                         /\ soup[j].href.chars # <<>>
                         /\ ~Rejected(soup[j].href.chars))

\* the link entries of anchors with a non-empty destination
LinksProduced == SelectSeq(EntriesOfType("link"), LAMBDA e : e.url # <<>>)

\* C5 as stated, for the trees whose metadata is read without failure: no
\* link entry has a url equal to "#" or starting with "javascript:",
\* "mailto:" or "tel:", and every anchor with a non-empty destination that
\* is not one of these has exactly one entry, in document order.
C5_AsStated ==
    (ExtractRan /\ EntriesOfType("metadata") # <<>>) =>
        /\ \A n \in 1..Len(EntriesOfType("link")) :
               ~Rejected(EntriesOfType("link")[n].url)
        /\ Len(LinksProduced) = Len(LinkedAnchors)
        /\ \A n \in 1..Len(LinkedAnchors) :
               LinksProduced[n].text
                   = IF strip(get_text(soup, LinkedAnchors[n])) # <<>>
                     THEN strip(get_text(soup, LinkedAnchors[n]))
                     ELSE soup[LinkedAnchors[n]].href.chars

\* the title C7 describes
TitleAsStated ==
    IF find_all(soup, 0, {TitleName}) = <<>> THEN NoTitle
    ELSE strip(get_text(soup, find_all(soup, 0, {TitleName})[1]))

DescriptionMetas ==
    SelectSeq(find_all(soup, 0, {MetaName}),
              LAMBDA j : soup[j].attr_name = Str(DescriptionName))

\* the description C7 describes
DescriptionAsStated ==
    IF DescriptionMetas = <<>> THEN NoDescription
    ELSE IF soup[DescriptionMetas[1]].content = None THEN NoDescription
    ELSE IF strip(soup[DescriptionMetas[1]].content.chars) = <<>> THEN NoDescription
    ELSE strip(soup[DescriptionMetas[1]].content.chars)

\* C7 as stated: metadata extraction fails for no node tree; the title is
\* the trimmed title text, or "No Title" without a title node; the
\* description is the trimmed content of the first meta named description,
\* or "No Description" when that node is absent, has no content attribute or
\* has empty content.
C7_AsStated ==
    ExtractRan =>
        /\ raised \notin {"AttributeError", "KeyError"}
        /\ Len(EntriesOfType("metadata")) = 1
        /\ EntriesOfType("metadata")[1].title = TitleAsStated
        /\ EntriesOfType("metadata")[1].meta_desc = DescriptionAsStated

---------------------------------------------------------------------------
(* Properties of extract_tab_content (Spec) *)

\* extract_tab_content has returned to its caller
TabsReturned ==
    \/ variant = "selenium" /\ pc \in {"extracted", "done", "render_error"}
    \/ variant = "playwright" /\ pc \in {"fetched", "extracted", "done", "render_error"}

\* the exceptions of the browser commands
BrowserExceptions ==
    {"TimeoutException", "NoSuchElementException", "StaleElementReferenceException",
     "WebDriverException", "Error"}

\* C8: extract_tab_content never raises to its caller, whichever step fails
\* (locating the tab controls, reading a label, clicking, locating the
\* visible panel, reading it): no run ends with a browser exception, a
\* failed step is followed by the return, and on a page without tab controls
\* the call returns with tab_data empty.
C8_TabsNeverRaise ==
    /\ raised \notin BrowserExceptions
    /\ pc = "crashed" => raised \in {"AttributeError", "KeyError", "ValueError"}
    /\ caught # "none" => TabsReturned
    /\ (TabsReturned /\ page = PageOf(<<>>)) => tab_data = <<>>

\* the click on the second tab has failed after the first tab was captured,
\* and the Selenium call has returned
C8_Witness ==
    /\ variant = "selenium"
    /\ pc = "extracted"
    /\ fault = [step |-> "click", at |-> 1]
    /\ caught = "WebDriverException"
    /\ raised = "none"
    /\ Len(tab_data) = 1

\* C9 as stated: whenever a step of tab discovery fails, at whichever tab,
\* tab_data is empty after extract_tab_content returns, entries captured for
\* earlier tabs included.
C9_AsStated ==
    (TabsReturned /\ caught # "none") => tab_data = <<>>

\* the entries C10 describes for the controls cs: one per control whose
\* panel text is non-empty once trimmed, in the order of the controls
RECURSIVE EntriesAsStated(_)
EntriesAsStated(cs) ==
    IF cs = <<>> THEN <<>>
    ELSE (IF Head(cs).panel = None THEN <<>>
          ELSE EntryFor(Head(cs).label, Head(cs).panel.chars))
         \o EntriesAsStated(Tail(cs))

\* C10 as stated, for the runs in which no browser command fails, no
\* activation replaces the controls and the page has carried out every
\* activation by the time its panel is looked up: after
\* extract_tab_content, tab_data holds exactly one entry per tab control
\* whose activation reveals text that is non-empty once trimmed, in the
\* order of the controls, and a tab without a revealed panel does not keep
\* later tabs from being captured.
C10_AsStated ==
    (/\ TabsReturned
     /\ fault = NoFault
     /\ ~late
     /\ page.gen = 0) =>
        tab_data = EntriesAsStated(page.controls)

---------------------------------------------------------------------------
(* Properties of generate_pdf (Spec) *)

\* generate_pdf has issued its layout commands
RenderRan == pc = "done" \/ (pc = "render_error" /\ raised = "OSError")

\* the commands generate_pdf issued, those of the constructor left out
Rendered == SubSeq(pdf, Len(InitCommands) + 1, Len(pdf))

\* the commands that put text on the page
TextCommands(commands) ==
    SelectSeq(commands, LAMBDA c : c.op \in {"cell", "multi_cell"})

\* the positions of the forced page breaks
ForcedBreaks == {n \in 1..Len(Rendered) : Rendered[n].op = "add_page"}

BreakAt == CHOOSE n \in ForcedBreaks : TRUE

BeforeBreak == TextCommands(SubSeq(Rendered, 1, BreakAt - 1))

AfterBreak == TextCommands(SubSeq(Rendered, BreakAt + 1, Len(Rendered)))

\* C11: generate_pdf issues a forced page break if and only if tab_data is
\* not empty.  With entries there is exactly one break; the title block,
\* every section and every link are rendered before it, the first text after
\* it is the "Tabbed Content" title, and then each tab's label is followed
\* directly by that tab's content, in tab_data order.  Without entries there
\* is neither a forced break nor a "Tabbed Content" title.
C11_ForcedBreakIffTabs ==
    RenderRan =>
        /\ (tab_data = <<>>) =>
               /\ ForcedBreaks = {}
               /\ \A n \in 1..Len(Rendered) : Rendered[n].text # TabbedContent
        /\ (tab_data # <<>>) =>
               /\ Cardinality(ForcedBreaks) = 1
               /\ Len(BeforeBreak)
                      = 3 + 2 * Len(EntriesOfType("heading_content"))
                          + Len(EntriesOfType("link"))
               /\ Len(AfterBreak) = 1 + 2 * Len(tab_data)
               /\ AfterBreak[1].text = TabbedContent
               /\ \A n \in 1..Len(tab_data) :
                      /\ AfterBreak[2 * n].text = Cleaned(tab_data[n].tab_name)
                      /\ AfterBreak[2 * n + 1].text = Cleaned(tab_data[n].content)

\* a document with two tab entries has been rendered by the Selenium
\* pipeline, with its forced break
C11_Witness ==
    /\ pc = "done"
    /\ variant = "selenium"
    /\ Len(tab_data) = 2
    /\ ForcedBreaks # {}
    /\ EntriesOfType("link") # <<>>

\* "Links"
LinksLabel == <<76, 105, 110, 107, 115>>

\* the positions, among the text commands, of the "Links" label
LinksLabelAt ==
    {n \in 1..Len(TextCommands(Rendered)) : TextCommands(Rendered)[n].text = LinksLabel}

\* C12 as stated: with at least one link, generate_pdf renders a "Links"
\* label after the last section and before the first link line, then each
\* link as "{text} -> {url}" in extraction order; without links no "Links"
\* label is rendered.
C12_AsStated ==
    RenderRan =>
        /\ (EntriesOfType("link") = <<>>) => LinksLabelAt = {}
        /\ (EntriesOfType("link") # <<>>) =>
               /\ LinksLabelAt = {3 + 2 * Len(EntriesOfType("heading_content")) + 1}
               /\ \A n \in 1..Len(EntriesOfType("link")) :
                      TextCommands(Rendered)
                              [3 + 2 * Len(EntriesOfType("heading_content")) + 1 + n].text
                          = Cleaned(LinkLine(EntriesOfType("link")[n]))

---------------------------------------------------------------------------
(* Properties of the tab loop's element handles (Spec) *)

\* C13 as stated: every pass of the tab loop looks the tab controls up
\* afresh before it reads a label or clicks, and acts on the element at the
\* current index of that fresh list: no label is read from, and no click
\* made on, a handle obtained before an earlier activation, also when an
\* activation replaces the controls; an index past the fresh list is skipped
\* without failure, so that without a failing browser command, on a page
\* that has carried out every activation by the time its panel is looked up,
\* no pass ends on a detached element.
C13_AsStated ==
    /\ \A n \in 1..Len(acted) : acted[n].handle.clicks = acted[n].clicks
    /\ (fault = NoFault /\ ~late) =>
           caught \notin {"Error", "StaleElementReferenceException"}

---------------------------------------------------------------------------
(* Properties of the browser session (Spec) *)

\* the run has ended: main has returned, or an exception has left it
Terminated == pc \in {"done", "crashed", "render_error"}

\* C14 as stated: in the Selenium pipeline, once setup_selenium has opened
\* the browser session, every way the run can end, an exception raised
\* during extraction or a failure of the rendering or the writing in
\* generate_pdf included, has the session released by driver.quit(): no
\* terminated run leaves the session open.
C14_AsStated ==
    (variant = "selenium" /\ Terminated) => driver = "quit"

=============================================================================
